---------------------------- MODULE Spec2Model ----------------------------
(***************************************************************************)
(* blinkOS (libraries/blinkos/src/blinkos.cpp): the resident loop of a     *)
(* Blinks tile.  The model follows run(): clock snapshot, IR packet        *)
(* pipeline, button grab-and-clear, user callback, pixel forwarding,       *)
(* display flush, sleep check, with the timer and IR interrupts as         *)
(* environment actions that interleave with the loop.                      *)
(***************************************************************************)
EXTENDS Integers, Sequences, FiniteSets, TLC

(***************************************************************************)
(* Bounds of the model.                                                    *)
(***************************************************************************)
\* number of faces modelled (the hardware has 6, IR and pixel alike)
FACE_COUNT == 2
\* longest payload (bytes between header and checksum) the IR driver delivers
MaxPayload == 2
\* single 1ms ticks modelled after each whole multiple of the sleep timeout
MaxTicks == 2
\* whole sleep timeouts of idle time that may elapse
MaxIdle == 2
\* largest click count the debounce routine reports
MaxClicks == 1
\* largest colour value the user callback writes
MaxColor == 1
\* timer_256us_callback_sei() invocations modelled (step_us repeats after 125)
MaxTimerCalls == 130

(***************************************************************************)
(* Program constants.                                                      *)
(***************************************************************************)
SLEEP_TIMEOUT_SECONDS == 600
MILLIS_PER_SECOND == 1000
SLEEP_TIMEOUT_MS == SLEEP_TIMEOUT_SECONDS * MILLIS_PER_SECOND

Faces == 0 .. (FACE_COUNT - 1)

\* header bytes the pipeline routes on
HDR_USER == 1
HDR_BLINKOS == 2
\* a header that is neither
HDR_OTHER == HDR_BLINKOS + 1

(***************************************************************************)
(* Bytes and the CRC of <util/crc16.h>.                                    *)
(***************************************************************************)
RECURSIVE BitXor(_, _, _)
BitXor(a, b, n) ==
    IF n = 0 THEN 0
    ELSE (((a % 2) + (b % 2)) % 2) + 2 * BitXor(a \div 2, b \div 2, n - 1)

RECURSIVE crcShift(_, _)
crcShift(d, i) ==
    IF i = 0 THEN d
    ELSE crcShift(IF d >= 128 THEN BitXor((d * 2) % 256, 7, 8)
                              ELSE (d * 2) % 256,
                  i - 1)

\* _crc8_ccitt_update( crc , data ): polynomial x^8 + x^2 + x + 1
crc8_ccitt_update(c, b) == crcShift(BitXor(c, b, 8), 8)

\* the byte at (0-based) offset i of a buffer
ByteAt(data, i) == IF (i + 1) \in DOMAIN data THEN data[i + 1] ELSE 0

\* the loop  while (--len) { c = _crc8_ccitt_update(c, *data); data++; }
\* with len an 8 bit counter; yields the crc and the final offset
RECURSIVE crcLoop(_, _, _, _)
crcLoop(data, c, i, len) ==
    LET l == (len + 255) % 256
    IN  IF l = 0 THEN [c |-> c, i |-> i]
        ELSE crcLoop(data, crc8_ccitt_update(c, ByteAt(data, i)), i + 1, l)

crccheckAlwaysGood(data, len) == TRUE

\* crccheck() with the crc started at 0, not 0xFF
crccheckSeedZero(data, len) ==
    LET r == crcLoop(data, 0, 0, len)
    IN  ByteAt(data, r.i) = r.c

crccheck(data, len) ==
    LET r == crcLoop(data, 255, 0, len)
    IN  ByteAt(data, r.i) = r.c

(***************************************************************************)
(* Frames the IR driver may complete.                                      *)
(***************************************************************************)
\* payload text: 'H', 'I', 'J', ...
PayloadText == [i \in 1 .. MaxPayload |-> 71 + i]

Headers == {HDR_USER, HDR_BLINKOS, HDR_OTHER}

\* a header alone, or a header and the longest payload
Bodies == { <<h>> \o SubSeq(PayloadText, 1, n) : h \in Headers, n \in {0, MaxPayload} }

\* the CRC a sender appends: seed 0xFF over every byte of the body
RECURSIVE crcOf(_, _)
crcOf(body, c) ==
    IF body = <<>> THEN c ELSE crcOf(Tail(body), crc8_ccitt_update(c, Head(body)))

GoodFrames == { b \o <<crcOf(b, 255)>> : b \in Bodies }
\* the checksum byte corrupted in its lowest bit
BadFrames == { b \o <<BitXor(crcOf(b, 255), 1, 8)>> : b \in Bodies }
ShortFrames == { <<>>, <<HDR_USER>> }

Frames == GoodFrames \cup BadFrames \cup ShortFrames

\* frames for crccheck() on its own: a header, a payload of any length up to
\* the longest, and the sender's CRC
CrcFrames ==
    { b \o <<crcOf(b, 255)>> :
        b \in { <<h>> \o SubSeq(PayloadText, 1, n) :
                    h \in Headers, n \in 0 .. MaxPayload } }

\* 2^b
RECURSIVE Pow2(_)
Pow2(b) == IF b = 0 THEN 1 ELSE 2 * Pow2(b - 1)

\* the frame with bit b of its i-th byte flipped
FlipBit(frame, i, b) == [frame EXCEPT ![i] = BitXor(@, Pow2(b), 8)]

(***************************************************************************)
(* State.                                                                  *)
(***************************************************************************)
VARIABLES
    pc,                 \* position of run()
    irReady,            \* IR driver: irDataIsPacketReady(f)
    irBuf,              \* IR driver: the frame in face f's receive buffer
    ir_data_buffers,    \* loopstate_in.ir_data_buffers[f]: len, ready_flag
    buttonstate,        \* the shared buttonstate_t
    in_buttonstate,     \* loopstate_in.buttonstate
    intEnabled,         \* global interrupt enable (cleared in ATOMIC_BLOCK)
    millis,             \* millisecond counter
    millis_snapshot,    \* snapshot taken by updateMillisSnapshot()
    in_millis,          \* loopstate_in.millis
    sleepTimer,         \* sleepTimer's expiry time
    woke_flag,          \* loopstate_in.woke_flag
    pixelOn,            \* pixel_enable() / pixel_disable()
    irOn,               \* ir_enable() / ir_disable()
    buttonISR,          \* button_ISR_on() / button_ISR_off()
    colors,             \* loopstate_out.colors[f]: value, reserved
    displayBuf,         \* pixel driver: buffered colour of face f
    \* history variables
    verdict,            \* the branch the pass just made took for face f
    surfaced,           \* faces this iteration's pass set ready_flag for
    routed,             \* faces whose current frame a pass has processed
    owed,               \* flag bits set by the tick, not yet returned by a grab
    grabSnap,           \* buttonstate when the current grab disabled interrupts
    ticked,             \* a 1ms tick ran since the last grab
    setPixelCalls,      \* pixel_bufferedSetPixel(f, ..) calls this iteration
    flushes,            \* pixel_displayBufferedPixels() calls this iteration
    callsSinceWake,     \* loopEntry() calls since sleep() last returned
    slept,              \* sleep() has returned at least once
    step_us,            \* timer_256us_callback_sei's static accumulator
    crcIn,              \* a frame handed to crccheck() on its own
    crcOut,             \* what crccheck() made of crcIn, "none" before the call
    crcFlips,           \* bits of crcIn flipped since its sender built it
    \* more history variables
    timerCalls,         \* timer_256us_callback_sei() invocations so far
    postponedAt,        \* millis when postponeSleep() was last called
    samples,            \* updateButtonState1ms() calls so far
    lastReport,         \* what the last updateButtonState1ms() call returned
    sleepCalls,         \* sleep() calls so far (2 stands for two or more)
    wokeAt,             \* millis when power_sleep() last returned
    foundExpired,       \* what this iteration's isExpired() returned
    iterSteps           \* the steps this iteration has made, in order

irVars == <<irReady, irBuf, ir_data_buffers, verdict, surfaced, routed>>
buttonVars == <<buttonstate, in_buttonstate, owed, grabSnap, ticked>>
timeVars == <<millis, millis_snapshot, sleepTimer>>
powerVars == <<woke_flag, pixelOn, irOn, buttonISR, slept>>
pixelVars == <<colors, displayBuf, setPixelCalls, flushes>>
crcVars == <<crcIn, crcOut, crcFlips>>
accVars == <<step_us, timerCalls>>
tickHist == <<postponedAt, samples, lastReport>>
sleepHist == <<sleepCalls, wokeAt, foundExpired>>

vars == <<pc, irReady, irBuf, ir_data_buffers, buttonstate, in_buttonstate,
          intEnabled, millis, millis_snapshot, in_millis, sleepTimer,
          woke_flag, pixelOn, irOn, buttonISR, colors, displayBuf,
          verdict, surfaced, routed, owed, grabSnap, ticked,
          setPixelCalls, flushes, callsSinceWake, slept, step_us, crcIn,
          crcOut, crcFlips, timerCalls, postponedAt, samples, lastReport, sleepCalls,
          wokeAt, foundExpired, iterSteps>>

ButtonFlags == {"pressed", "released"}
ZeroButton == [bitflags |-> {}, clickcount |-> 0, down |-> 0]

\* Timer::set( ms ): expire ms from now.  millis_t is 32 bits wide; the times
\* modelled stay far below its wrap (49 days).
TimerSet(now, ms) == now + ms
\* Timer::isExpired()
TimerIsExpired == millis_snapshot >= sleepTimer

\* postponeSleep() with SLEEP_TIMEOUT_MS computed without its (millis_t)
\* cast: the product taken in 16 bit int arithmetic
postponeSleepUncast(now) ==
    TimerSet(now, (SLEEP_TIMEOUT_SECONDS * MILLIS_PER_SECOND) % 65536)

\* postponeSleep(), called when the millisecond counter reads now:
\* the new expiry time of sleepTimer
postponeSleep(now) == TimerSet(now, SLEEP_TIMEOUT_MS)

(***************************************************************************)
(* The state when run() reaches the top of its loop: buffers not ready,    *)
(* IR and pixels enabled, the sleep timer restarted.                       *)
(***************************************************************************)
Init ==
    /\ pc = "updateMillisSnapshot"
    /\ irReady = [f \in Faces |-> FALSE]
    /\ irBuf = [f \in Faces |-> <<>>]
    /\ ir_data_buffers = [f \in Faces |-> [len |-> 0, ready_flag |-> 0]]
    /\ buttonstate = ZeroButton
    /\ in_buttonstate = ZeroButton
    /\ intEnabled = TRUE
    /\ millis = 0
    /\ millis_snapshot = 0
    /\ in_millis = 0
    /\ sleepTimer = postponeSleep(0)
    /\ woke_flag = 0
    /\ pixelOn = TRUE
    /\ irOn = TRUE
    /\ buttonISR = FALSE
    /\ colors = [f \in Faces |-> [value |-> 0, reserved |-> 0]]
    /\ displayBuf = [f \in Faces |-> 0]
    /\ verdict = [f \in Faces |-> "none"]
    /\ surfaced = {}
    /\ routed = {}
    /\ owed = {}
    /\ grabSnap = ZeroButton
    /\ ticked = FALSE
    /\ setPixelCalls = [f \in Faces |-> 0]
    /\ flushes = 0
    /\ callsSinceWake = 0
    /\ slept = FALSE
    /\ step_us = 0
    /\ crcIn = <<>>
    /\ crcOut = "none"
    /\ crcFlips = 0
    /\ timerCalls = 0
    /\ postponedAt = 0
    /\ samples = 0
    /\ lastReport = FALSE
    /\ sleepCalls = 0
    /\ wokeAt = 0
    /\ foundExpired = FALSE
    /\ iterSteps = <<>>


(***************************************************************************)
(* IR driver (blinkos_irdata): completes a frame in a free receive slot.   *)
(* A slot that is not ready belongs to the driver; its content is not      *)
(* modelled.  The driver runs in interrupt context at any time; run()      *)
(* looks at the driver's state only in the pipeline and in the user        *)
(* callback, so a frame completed elsewhere is taken to complete just      *)
(* before the next of these two steps.                                     *)
(***************************************************************************)
IrDataDeliver(f, frame) ==
    /\ irOn
    /\ UNCHANGED <<crcVars, accVars, tickHist, sleepHist, iterSteps>>
    /\ pc \in {"processPendingIRPackets", "loopEntry"}
    /\ ~irReady[f]
    /\ irReady' = [irReady EXCEPT ![f] = TRUE]
    /\ irBuf' = [irBuf EXCEPT ![f] = frame]
    /\ routed' = routed \ {f}
    /\ UNCHANGED <<pc, ir_data_buffers, verdict, surfaced, buttonVars,
                   intEnabled, timeVars, in_millis, powerVars, pixelVars,
                   callsSinceWake>>

IrReceive == \E f \in Faces, frame \in Frames : IrDataDeliver(f, frame)

(***************************************************************************)
(* processPendingIRPackets()                                               *)
(***************************************************************************)
TooShortBelowOne(packetLen) == packetLen < 1

\* the length test as  if ( packetLen == 0 )
TooShortOnlyEmpty(packetLen) == packetLen = 0

\* if ( packetLen < 2 )
TooShort(packetLen) == packetLen < 2

IsUserHeaderOrBlinkos(header) == header = HDR_USER \/ header = HDR_BLINKOS

\* if (*data==0x01)
IsUserHeader(header) == header = HDR_USER

\* loopstate_in.ir_data_buffers[f].len = packetLen-1
UserDataLen(packetLen) == packetLen - 1

\* crccheck(data, packetLen) for every frame the pipeline can pass to it,
\* computed once
CrcChecks == [data \in {fr \in Frames : ~TooShort(Len(fr))} |-> crccheck(data, Len(data))]

\* The branch one turn of the for loop takes for face f:
\*   "none"     no packet ready
\*   "short"    packetLen < 2: irDataMarkPacketRead
\*   "user"     crccheck passed, header 0x01: len and ready_flag written
\*   "blinkos"  crccheck passed, header 0x02: irDataMarkPacketRead
\*   "other"    crccheck passed, another header: irDataMarkPacketRead
\*   "badcrc"   crccheck failed: irDataMarkPacketRead
ProcessFace(f) ==
    LET data == irBuf[f]
        packetLen == Len(data)
    IN  IF ~irReady[f] THEN "none"
        ELSE IF TooShort(packetLen) THEN "short"
        ELSE IF CrcChecks[data]
             THEN IF IsUserHeader(ByteAt(data, 0)) THEN "user"
                  ELSE IF ByteAt(data, 0) = HDR_BLINKOS THEN "blinkos"
                  ELSE "other"
             ELSE "badcrc"

\* the branches that call irDataMarkPacketRead(f)
MarksRead(branch) == branch \in {"short", "blinkos", "other", "badcrc"}

processPendingIRPackets ==
    /\ pc = "processPendingIRPackets"
    /\ iterSteps' = Append(iterSteps, "irpackets")
    /\ UNCHANGED <<crcVars, accVars, tickHist, sleepHist>>
    /\ pc' = "grabEnter"
    /\ verdict' = [f \in Faces |-> ProcessFace(f)]
    /\ surfaced' = {f \in Faces : verdict'[f] = "user"}
    /\ ir_data_buffers' =
         [f \in Faces |->
            IF verdict'[f] = "user"
            THEN [len |-> UserDataLen(Len(irBuf[f])), ready_flag |-> 1]
            ELSE ir_data_buffers[f]]
    /\ irReady' = [f \in Faces |-> irReady[f] /\ ~MarksRead(verdict'[f])]
    /\ irBuf' = [f \in Faces |-> IF MarksRead(verdict'[f]) THEN <<>> ELSE irBuf[f]]
    /\ routed' = {f \in Faces : irReady'[f]}
    /\ UNCHANGED <<buttonVars, intEnabled, timeVars, in_millis, powerVars,
                   pixelVars, callsSinceWake>>

(***************************************************************************)
(* run(): the loop, one action per step                                    *)
(***************************************************************************)
updateMillisSnapshot ==
    /\ pc = "updateMillisSnapshot"
    /\ iterSteps' = <<"snapshot">>
    /\ foundExpired' = FALSE
    /\ UNCHANGED <<crcVars, accVars, tickHist, sleepCalls, wokeAt>>
    /\ pc' = "processPendingIRPackets"
    /\ millis_snapshot' = millis
    /\ setPixelCalls' = [f \in Faces |-> 0]
    /\ flushes' = 0
    /\ UNCHANGED <<irVars, buttonVars, intEnabled, millis, sleepTimer,
                   in_millis, powerVars, colors, displayBuf, callsSinceWake>>

\* grabAndClearButtonState( loopstate_in.buttonstate ), statement by statement.
\* ATOMIC_BLOCK( ATOMIC_FORCEON ): interrupts off on entry, on at exit.
grabEnter ==
    /\ pc = "grabEnter"
    /\ UNCHANGED <<crcVars, accVars, tickHist, sleepHist, iterSteps>>
    /\ pc' = "grabBitflags"
    /\ intEnabled' = FALSE
    /\ grabSnap' = buttonstate
    /\ verdict' = [f \in Faces |-> "none"]
    /\ UNCHANGED <<irReady, irBuf, ir_data_buffers, surfaced, routed, buttonstate, in_buttonstate, owed, ticked, timeVars,
                   in_millis, powerVars, pixelVars, callsSinceWake>>

grabBitflags ==
    /\ pc = "grabBitflags"
    /\ UNCHANGED <<crcVars, accVars, tickHist, sleepHist, iterSteps>>
    /\ pc' = "grabClickcount"
    /\ in_buttonstate' = [in_buttonstate EXCEPT !.bitflags = buttonstate.bitflags]
    /\ owed' = owed \ buttonstate.bitflags
    /\ UNCHANGED <<irVars, buttonstate, grabSnap, ticked, intEnabled, timeVars,
                   in_millis, powerVars, pixelVars, callsSinceWake>>

grabClickcount ==
    /\ pc = "grabClickcount"
    /\ UNCHANGED <<crcVars, accVars, tickHist, sleepHist, iterSteps>>
    /\ pc' = "grabDown"
    /\ in_buttonstate' = [in_buttonstate EXCEPT !.clickcount = buttonstate.clickcount]
    /\ UNCHANGED <<irVars, buttonstate, owed, grabSnap, ticked, intEnabled,
                   timeVars, in_millis, powerVars, pixelVars, callsSinceWake>>

grabDown ==
    /\ pc = "grabDown"
    /\ UNCHANGED <<crcVars, accVars, tickHist, sleepHist, iterSteps>>
    /\ pc' = "grabClear"
    /\ in_buttonstate' = [in_buttonstate EXCEPT !.down = buttonstate.down]
    /\ UNCHANGED <<irVars, buttonstate, owed, grabSnap, ticked, intEnabled,
                   timeVars, in_millis, powerVars, pixelVars, callsSinceWake>>

ClearedKeepsFlags(bs) == bs

\* buttonstate.bitflags = 0
Cleared(bs) == [bs EXCEPT !.bitflags = {}]

grabClear ==
    /\ pc = "grabClear"
    /\ UNCHANGED <<crcVars, accVars, tickHist, sleepHist, iterSteps>>
    /\ pc' = "grabExit"
    /\ buttonstate' = Cleared(buttonstate)
    /\ UNCHANGED <<irVars, in_buttonstate, owed, grabSnap, ticked, intEnabled, timeVars,
                   in_millis, powerVars, pixelVars, callsSinceWake>>

grabExit ==
    /\ pc = "grabExit"
    /\ iterSteps' = Append(iterSteps, "grab")
    /\ UNCHANGED <<crcVars, accVars, tickHist, sleepHist>>
    /\ pc' = "loopEntry"
    /\ intEnabled' = TRUE
    /\ ticked' = FALSE
    /\ grabSnap' = ZeroButton
    /\ UNCHANGED <<irVars, buttonstate, in_buttonstate, owed, timeVars,
                   in_millis, powerVars, pixelVars, callsSinceWake>>

\* loopstate_in.millis = millis_snapshot; loopEntry( &loopstate_in , &loopstate_out )
\* The user callback reads loopstate_in, writes loopstate_out, and may mark
\* frames handed to it as read (consumed).
loopEntry(consumed, newColors) ==
    /\ pc = "loopEntry"
    /\ iterSteps' = Append(iterSteps, "callback")
    /\ UNCHANGED <<crcVars, accVars, tickHist, sleepHist>>
    /\ pc' = "setPixels"
    /\ in_millis' = millis_snapshot
    /\ consumed \subseteq {f \in Faces : irReady[f] /\ ir_data_buffers[f].ready_flag = 1}
    /\ irReady' = [f \in Faces |-> irReady[f] /\ f \notin consumed]
    /\ irBuf' = [f \in Faces |-> IF f \in consumed THEN <<>> ELSE irBuf[f]]
    /\ routed' = routed \ consumed
    /\ surfaced' = {}
    /\ colors' = newColors
    /\ callsSinceWake' = IF callsSinceWake < 2 THEN callsSinceWake + 1 ELSE 2
    /\ UNCHANGED <<ir_data_buffers, verdict, buttonVars,
                   intEnabled, timeVars, powerVars, displayBuf, setPixelCalls,
                   flushes>>

\* a callback that does nothing
LoopEntryIdle == loopEntry({}, colors)

\* a callback that consumes some of the frames handed to it
LoopEntryConsume == \E consumed \in SUBSET Faces : loopEntry(consumed, colors)

Colors == [value : 0 .. MaxColor, reserved : {0, 1}]

\* a callback that paints
LoopEntryPaint == \E c \in [Faces -> Colors] : loopEntry({}, c)

IsDirtyAlways(color) == TRUE

\* if ( color.reserved )
IsDirty(color) == color.reserved = 1

\* for( f < PIXEL_FACE_COUNT ) if ( color.reserved ) pixel_bufferedSetPixel( f, color )
setPixels ==
    /\ pc = "setPixels"
    /\ iterSteps' = Append(iterSteps, "forward")
    /\ UNCHANGED <<crcVars, accVars, tickHist, sleepHist>>
    /\ pc' = "displayBufferedPixels"
    /\ displayBuf' = [f \in Faces |->
                        IF IsDirty(colors[f]) THEN colors[f].value ELSE displayBuf[f]]
    /\ setPixelCalls' = [f \in Faces |->
                           IF IsDirty(colors[f]) THEN setPixelCalls[f] + 1
                           ELSE setPixelCalls[f]]
    /\ UNCHANGED <<irVars, buttonVars, intEnabled, timeVars, in_millis,
                   powerVars, colors, flushes, callsSinceWake>>

\* pixel_displayBufferedPixels()
displayBufferedPixels ==
    /\ pc = "displayBufferedPixels"
    /\ iterSteps' = Append(iterSteps, "flush")
    /\ UNCHANGED <<crcVars, accVars, tickHist, sleepHist>>
    /\ pc' = "sleepCheck"
    /\ flushes' = flushes + 1
    /\ UNCHANGED <<irVars, buttonVars, intEnabled, timeVars, in_millis,
                   powerVars, colors, displayBuf, setPixelCalls, callsSinceWake>>

\* the sleep check with sleep() called whatever isExpired() returns
sleepCheckAlways ==
    /\ pc = "sleepCheck"
    /\ iterSteps' = Append(iterSteps, "sleepTimer")
    /\ foundExpired' = TimerIsExpired
    /\ UNCHANGED <<crcVars, accVars, tickHist, sleepCalls, wokeAt>>
    /\ pc' = "pixel_disable"
    /\ UNCHANGED <<irVars, buttonVars, intEnabled, timeVars, in_millis,
                   powerVars, pixelVars, callsSinceWake>>

\* if (sleepTimer.isExpired()) sleep();
sleepCheck ==
    /\ pc = "sleepCheck"
    /\ iterSteps' = Append(iterSteps, "sleepTimer")
    /\ foundExpired' = TimerIsExpired
    /\ UNCHANGED <<crcVars, accVars, tickHist, sleepCalls, wokeAt>>
    /\ pc' = IF TimerIsExpired THEN "pixel_disable" ELSE "updateMillisSnapshot"
    /\ UNCHANGED <<irVars, buttonVars, intEnabled, timeVars, in_millis,
                   powerVars, pixelVars, callsSinceWake>>

LoopSteps ==
    \/ updateMillisSnapshot
    \/ processPendingIRPackets
    \/ grabEnter
    \/ grabBitflags
    \/ grabClickcount
    \/ grabDown
    \/ grabClear
    \/ grabExit
    \/ setPixels
    \/ displayBufferedPixels
    \/ sleepCheck

(***************************************************************************)
(* The IR pipeline under frames arriving at any point of the loop.         *)
(***************************************************************************)
NextIR == LoopSteps \/ LoopEntryConsume \/ IrReceive

SpecIR == Init /\ [][NextIR]_vars

(***************************************************************************)
(* sleep(), statement by statement                                         *)
(***************************************************************************)
pixel_disable ==
    /\ pc = "pixel_disable"
    /\ iterSteps' = Append(iterSteps, "sleep")
    /\ sleepCalls' = IF sleepCalls < 2 THEN sleepCalls + 1 ELSE 2
    /\ UNCHANGED <<crcVars, accVars, tickHist, wokeAt, foundExpired>>
    /\ pc' = "ir_disable"
    /\ pixelOn' = FALSE
    /\ UNCHANGED <<irVars, buttonVars, intEnabled, timeVars, in_millis,
                   woke_flag, irOn, buttonISR, slept, pixelVars, callsSinceWake>>

ir_disable ==
    /\ pc = "ir_disable"
    /\ UNCHANGED <<crcVars, accVars, tickHist, sleepHist, iterSteps>>
    /\ pc' = "button_ISR_on"
    /\ irOn' = FALSE
    /\ UNCHANGED <<irVars, buttonVars, intEnabled, timeVars, in_millis,
                   woke_flag, pixelOn, buttonISR, slept, pixelVars, callsSinceWake>>

\* sleep() with the call to button_ISR_on() left out
button_ISR_onSkipped ==
    /\ pc = "button_ISR_on"
    /\ UNCHANGED <<crcVars, accVars, tickHist, sleepHist, iterSteps>>
    /\ pc' = "power_sleep"
    /\ UNCHANGED <<irVars, buttonVars, intEnabled, timeVars, in_millis,
                   powerVars, pixelVars, callsSinceWake>>

button_ISR_on ==
    /\ pc = "button_ISR_on"
    /\ UNCHANGED <<crcVars, accVars, tickHist, sleepHist, iterSteps>>
    /\ pc' = "power_sleep"
    /\ buttonISR' = TRUE
    /\ UNCHANGED <<irVars, buttonVars, intEnabled, timeVars, in_millis,
                   woke_flag, pixelOn, irOn, slept, pixelVars, callsSinceWake>>

\* power_sleep() returns when the button change interrupt fires
power_sleep ==
    /\ pc = "power_sleep"
    /\ wokeAt' = millis
    /\ UNCHANGED <<crcVars, accVars, tickHist, sleepCalls, foundExpired, iterSteps>>
    /\ buttonISR
    /\ pc' = "button_ISR_off"
    /\ UNCHANGED <<irVars, buttonVars, intEnabled, timeVars, in_millis,
                   powerVars, pixelVars, callsSinceWake>>

button_ISR_off ==
    /\ pc = "button_ISR_off"
    /\ UNCHANGED <<crcVars, accVars, tickHist, sleepHist, iterSteps>>
    /\ pc' = "ir_enable"
    /\ buttonISR' = FALSE
    /\ UNCHANGED <<irVars, buttonVars, intEnabled, timeVars, in_millis,
                   woke_flag, pixelOn, irOn, slept, pixelVars, callsSinceWake>>

ir_enable ==
    /\ pc = "ir_enable"
    /\ UNCHANGED <<crcVars, accVars, tickHist, sleepHist, iterSteps>>
    /\ pc' = "pixel_enable"
    /\ irOn' = TRUE
    /\ UNCHANGED <<irVars, buttonVars, intEnabled, timeVars, in_millis,
                   woke_flag, pixelOn, buttonISR, slept, pixelVars, callsSinceWake>>

pixel_enable ==
    /\ pc = "pixel_enable"
    /\ UNCHANGED <<crcVars, accVars, tickHist, sleepHist, iterSteps>>
    /\ pc' = "setWokeFlag"
    /\ pixelOn' = TRUE
    /\ UNCHANGED <<irVars, buttonVars, intEnabled, timeVars, in_millis,
                   woke_flag, irOn, buttonISR, slept, pixelVars, callsSinceWake>>

\* loopstate_in.woke_flag = 1; sleep() returns to the loop
setWokeFlag ==
    /\ pc = "setWokeFlag"
    /\ UNCHANGED <<crcVars, accVars, tickHist, sleepHist, iterSteps>>
    /\ pc' = "updateMillisSnapshot"
    /\ woke_flag' = 1
    /\ slept' = TRUE
    /\ callsSinceWake' = 0
    /\ UNCHANGED <<irVars, buttonVars, intEnabled, timeVars, in_millis,
                   pixelOn, irOn, buttonISR, pixelVars>>

SleepSteps ==
    \/ pixel_disable
    \/ ir_disable
    \/ button_ISR_on
    \/ power_sleep
    \/ button_ISR_off
    \/ ir_enable
    \/ pixel_enable
    \/ setWokeFlag

(***************************************************************************)
(* The 1ms tick, in interrupt context                                      *)
(***************************************************************************)
InterruptMayFireAlways == TRUE

\* An interrupt handler starts only while interrupts are enabled, which
\* ATOMIC_BLOCK turns off for the length of the grab; the timer that drives
\* the tick is stopped while the processor is in power_sleep().
InterruptMayFire == intEnabled

TimerRuns == pc # "power_sleep"

\* timer_1000us_callback_sei(): incrementMillis1ms(), then
\* updateButtonState1ms( buttonstate ), which sets flag bits, writes the
\* click count and the down state, and reports whether to postpone sleep.
timer_1000us_callback_sei(newFlags, newClicks, newDown, activity) ==
    /\ InterruptMayFire
    /\ TimerRuns
    /\ millis' = millis + 1
    /\ samples' = samples + 1
    /\ lastReport' = activity
    /\ postponedAt' = IF activity THEN millis' ELSE postponedAt
    /\ UNCHANGED <<crcVars, sleepHist, iterSteps>>
    /\ buttonstate' = [bitflags |-> buttonstate.bitflags \cup newFlags,
                       clickcount |-> newClicks,
                       down |-> newDown]
    /\ owed' = owed \cup newFlags
    /\ ticked' = TRUE
    /\ sleepTimer' = IF activity THEN postponeSleep(millis') ELSE sleepTimer
    /\ UNCHANGED <<pc, irVars, in_buttonstate, grabSnap, intEnabled,
                   millis_snapshot, in_millis, powerVars, pixelVars,
                   callsSinceWake>>

\* The timer_256us_callback_sei() invocations up to one that completes a
\* millisecond, taken as one step with the accumulator left out of account.
Tick1ms(newFlags, newClicks, newDown, activity) ==
    /\ (millis % SLEEP_TIMEOUT_MS) < MaxTicks
    /\ timer_1000us_callback_sei(newFlags, newClicks, newDown, activity)
    /\ UNCHANGED accVars

\* a tick with any outcome of the debounce routine
TickButton ==
    \E newFlags \in SUBSET ButtonFlags, newClicks \in 0 .. MaxClicks,
       newDown \in {0, 1}, activity \in BOOLEAN :
        Tick1ms(newFlags, newClicks, newDown, activity)

\* a tick on which the button is found pressed
TickPress == Tick1ms({"pressed"}, 0, 1, TRUE)

\* SLEEP_TIMEOUT_MS ticks in a row on which the debounce routine changes
\* nothing and reports no activity
TickIdleTimeout ==
    /\ InterruptMayFire
    /\ samples' = samples + SLEEP_TIMEOUT_MS
    /\ lastReport' = FALSE
    /\ UNCHANGED <<crcVars, accVars, postponedAt, sleepHist, iterSteps>>
    /\ TimerRuns
    /\ (millis \div SLEEP_TIMEOUT_MS) < MaxIdle
    /\ millis' = millis + SLEEP_TIMEOUT_MS
    /\ ticked' = TRUE
    /\ UNCHANGED <<pc, irVars, buttonstate, in_buttonstate, owed, grabSnap,
                   intEnabled, millis_snapshot, sleepTimer, in_millis,
                   powerVars, pixelVars, callsSinceWake>>

(***************************************************************************)
(* The button hand-off under ticks arriving at any point of the loop.      *)
(***************************************************************************)
NextButton == LoopSteps \/ LoopEntryIdle \/ TickButton

SpecButton == Init /\ [][NextButton]_vars

(***************************************************************************)
(* The timer interrupt: the 256us callback and its accumulator.            *)
(***************************************************************************)
\* everything timer_256us_callback_sei() leaves alone on an invocation that
\* does not complete a millisecond
notAccVars ==
    <<pc, irVars, buttonVars, intEnabled, timeVars, in_millis, powerVars,
      pixelVars, callsSinceWake, crcVars, tickHist, sleepHist, iterSteps>>

\* step_us (unsigned, 16 bits) after  step_us += 256
stepAdded == (step_us + 256) % 65536

\* the callback with the accumulator cleared, not reduced, on a millisecond
timer_256us_callback_seiClears(newFlags, newClicks, newDown, activity) ==
    /\ InterruptMayFire
    /\ TimerRuns
    /\ timerCalls' = timerCalls + 1
    /\ IF stepAdded >= 1000
       THEN /\ timer_1000us_callback_sei(newFlags, newClicks, newDown, activity)
            /\ step_us' = 0
       ELSE /\ step_us' = stepAdded
            /\ UNCHANGED notAccVars

\* the callback with the button sampled on every invocation
timer_256us_callback_seiSamplesAlways(newFlags, newClicks, newDown, activity) ==
    /\ InterruptMayFire
    /\ TimerRuns
    /\ timerCalls' = timerCalls + 1
    /\ IF stepAdded >= 1000
       THEN /\ timer_1000us_callback_sei(newFlags, newClicks, newDown, activity)
            /\ step_us' = (stepAdded + 65536 - 1000) % 65536
       ELSE /\ step_us' = stepAdded
            /\ samples' = samples + 1
            /\ lastReport' = activity
            /\ UNCHANGED <<pc, irVars, buttonVars, intEnabled, timeVars,
                           in_millis, powerVars, pixelVars, callsSinceWake,
                           crcVars, postponedAt, sleepHist, iterSteps>>

\* timer_256us_callback_sei(): step_us += 256; if ( step_us >= 1000 )
\* { timer_1000us_callback_sei(); step_us -= 1000; }
timer_256us_callback_sei(newFlags, newClicks, newDown, activity) ==
    /\ InterruptMayFire
    /\ TimerRuns
    /\ timerCalls' = timerCalls + 1
    /\ IF stepAdded >= 1000
       THEN /\ timer_1000us_callback_sei(newFlags, newClicks, newDown, activity)
            /\ step_us' = (stepAdded + 65536 - 1000) % 65536
       ELSE /\ step_us' = stepAdded
            /\ UNCHANGED notAccVars

\* an invocation of the callback with any outcome of the debounce routine
Timer256 ==
    /\ timerCalls < MaxTimerCalls
    /\ \E newFlags \in {{}, {"pressed"}}, newDown \in {0, 1},
          activity \in BOOLEAN :
           timer_256us_callback_sei(newFlags, 0, newDown, activity)

NextTimer == Timer256

SpecTimer == Init /\ [][NextTimer]_vars

(***************************************************************************)
(* The pixel hand-off under a callback that paints.                        *)
(***************************************************************************)
NextPixel == LoopSteps \/ LoopEntryPaint

SpecPixel == Init /\ [][NextPixel]_vars

(***************************************************************************)
(* Sleep and wake: idle time, button presses, the loop and sleep().        *)
(***************************************************************************)
\* One millisecond less than a whole sleep timeout passes with no button
\* activity: SLEEP_TIMEOUT_MS - 1 ticks on which updateButtonState1ms()
\* reports none.
TickIdleAlmostTimeout ==
    /\ InterruptMayFire
    /\ TimerRuns
    /\ (millis % SLEEP_TIMEOUT_MS) >= 1
    /\ (millis \div SLEEP_TIMEOUT_MS) < MaxIdle
    /\ millis' = millis + SLEEP_TIMEOUT_MS - 1
    /\ samples' = samples + SLEEP_TIMEOUT_MS - 1
    /\ lastReport' = FALSE
    /\ ticked' = TRUE
    /\ UNCHANGED <<pc, irVars, buttonstate, in_buttonstate, owed, grabSnap,
                   intEnabled, millis_snapshot, sleepTimer, in_millis,
                   powerVars, pixelVars, callsSinceWake, crcVars, accVars,
                   postponedAt, sleepHist, iterSteps>>

NextPower ==
    \/ LoopSteps
    \/ LoopEntryIdle
    \/ SleepSteps
    \/ TickPress
    \/ TickIdleTimeout
    \/ TickIdleAlmostTimeout

SpecPower == Init /\ [][NextPower]_vars

(***************************************************************************)
(* crccheck() on its own: a sender builds a frame, the line may flip one   *)
(* bit of it, the receiver checks it.                                      *)
(***************************************************************************)
notCrcVars ==
    <<pc, irVars, buttonVars, intEnabled, timeVars, in_millis, powerVars,
      pixelVars, callsSinceWake, accVars, tickHist, sleepHist, iterSteps>>

CrcBuild ==
    /\ crcIn = <<>>
    /\ crcIn' \in CrcFrames
    /\ UNCHANGED <<crcOut, crcFlips, notCrcVars>>

CrcFlip ==
    /\ crcIn # <<>>
    /\ crcOut = "none"
    /\ crcFlips = 0
    /\ \E i \in DOMAIN crcIn, b \in 0 .. 7 : crcIn' = FlipBit(crcIn, i, b)
    /\ crcFlips' = 1
    /\ UNCHANGED <<crcOut, notCrcVars>>

CrcCheck ==
    /\ crcIn # <<>>
    /\ crcOut = "none"
    /\ crcOut' = IF crccheck(crcIn, Len(crcIn)) THEN "accepted" ELSE "rejected"
    /\ UNCHANGED <<crcIn, crcFlips, notCrcVars>>

NextCrc == CrcBuild \/ CrcFlip \/ CrcCheck

SpecCrc == Init /\ [][NextCrc]_vars

\* every action together
Next ==
    NextIR \/ NextButton \/ NextPixel \/ NextPower \/ NextTimer \/ NextCrc

Spec == Init /\ [][Next]_vars

(***************************************************************************)
(* Properties of the IR pipeline.                                          *)
(***************************************************************************)
\* a pass of processPendingIRPackets() is taking place
PassStep == pc = "processPendingIRPackets" /\ pc' = "grabEnter"

\* the final byte of a frame is the CRC-8-CCITT (seed 0xFF) of the bytes before it
ChecksumMatches ==
    [fr \in {x \in Frames : Len(x) >= 2} |->
        fr[Len(fr)] = crcOf(SubSeq(fr, 1, Len(fr) - 1), 255)]

\* face f holds a ready frame of at least 2 bytes with a matching checksum
ValidReady(f) == irReady[f] /\ Len(irBuf[f]) >= 2 /\ ChecksumMatches[irBuf[f]]

\* C1: a pass gives every face that holds a ready, checksum-valid frame of
\* total length L >= 2 with header 0x01 the descriptor ready_flag = 1,
\* len = L - 2.
C1_UserFrameLenIsTotalMinusTwo ==
    [][PassStep =>
         \A f \in Faces :
            (ValidReady(f) /\ irBuf[f][1] = HDR_USER)
               => ir_data_buffers'[f] =
                     [len |-> Len(irBuf[f]) - 2, ready_flag |-> 1]]_vars

\* C2: a pass marks every ready, checksum-valid frame whose header is not
\* 0x01 as read and leaves that face's ready_flag and len as they were.
C2_NonUserFrameConsumedNotSurfaced ==
    [][PassStep =>
         \A f \in Faces :
            (ValidReady(f) /\ irBuf[f][1] # HDR_USER)
               => /\ ~irReady'[f]
                  /\ ir_data_buffers'[f] = ir_data_buffers[f]]_vars

C2_Witness ==
    /\ pc = "grabEnter"
    /\ \E f \in Faces :
          /\ verdict[f] \in {"blinkos", "other"}
          /\ ~irReady[f]
          /\ ir_data_buffers[f].ready_flag = 0

\* C3: a pass marks every ready frame of length 0 or 1 as read without
\* calling crccheck on it or looking at its header, and leaves that face's
\* ready_flag and len as they were.
C3_ShortFrameDroppedUninspected ==
    [][PassStep =>
         \A f \in Faces :
            (irReady[f] /\ Len(irBuf[f]) < 2)
               => /\ ~irReady'[f]
                  /\ verdict'[f] = "short"
                  /\ ir_data_buffers'[f] = ir_data_buffers[f]]_vars

C3_Witness ==
    /\ pc = "grabEnter"
    /\ \E f \in Faces :
          /\ verdict[f] = "short"
          /\ ~irReady[f]
          /\ ir_data_buffers[f].ready_flag = 0

\* C4: a pass marks every ready frame of length >= 2 whose final byte is
\* not the CRC of the bytes before it as read and does not surface it,
\* whatever its header.
C4_BadChecksumNeverSurfaced ==
    [][PassStep =>
         \A f \in Faces :
            (irReady[f] /\ Len(irBuf[f]) >= 2 /\ ~ChecksumMatches[irBuf[f]])
               => /\ ~irReady'[f]
                  /\ f \notin surfaced'
                  /\ ir_data_buffers'[f] = ir_data_buffers[f]]_vars

C4_Witness ==
    /\ pc = "grabEnter"
    /\ \E f \in Faces :
          /\ verdict[f] = "badcrc"
          /\ ~irReady[f]
          /\ f \notin surfaced
          /\ ir_data_buffers[f].ready_flag = 0

\* C5: no pass processes a frame that an earlier pass has already
\* validated and routed: every completed frame is routed exactly once.
C5_FrameRoutedOnce ==
    [][PassStep => \A f \in Faces : ~(irReady[f] /\ f \in routed)]_vars

\* C6: when the user callback is invoked, a face is marked ready only if
\* this iteration's pass surfaced a checksum-valid 0x01 frame on it.
C6_ReadyOnlyIfSurfacedThisIteration ==
    pc = "loopEntry" =>
        \A f \in Faces : ir_data_buffers[f].ready_flag = 1 => f \in surfaced

(***************************************************************************)
(* Properties of sleep and wake.                                           *)
(***************************************************************************)
\* C7: the woke flag is one-shot: the user callback finds it 1 exactly in
\* its first invocation after sleep() has returned, and 0 in every other
\* invocation, also in every invocation before the first sleep.
C7_WokeFlagOneShot ==
    pc = "loopEntry" => (woke_flag = 1 <=> (slept /\ callsSinceWake = 0))

(***************************************************************************)
(* Properties of the button hand-off.                                      *)
(***************************************************************************)
GrabPcs == {"grabEnter", "grabBitflags", "grabClickcount", "grabDown",
            "grabClear", "grabExit"}

\* the three fields a finished grab has copied are those buttonstate held
\* when the grab began
NoTornRead == pc = "grabExit" => in_buttonstate = grabSnap

\* a flag bit the tick has set and no grab has returned yet is still set
NoFlagLost == owed \subseteq buttonstate.bitflags

\* a grab returns the flag bits set since the grab before, and no other
ReturnsOwedFlags ==
    (pc = "grabBitflags" /\ pc' = "grabClickcount")
        => in_buttonstate'.bitflags = owed

\* C8: under every interleaving of the 1ms tick with the loop, a grab reads
\* the three fields from one value of buttonstate, every flag bit the tick
\* sets is returned by the next grab, and no flag bit is returned by two
\* grabs unless the tick set it again in between.
C8_GrabIsAtomic ==
    [](NoTornRead /\ NoFlagLost) /\ [][ReturnsOwedFlags]_vars

C8_Witness ==
    /\ pc = "grabExit"
    /\ ticked
    /\ in_buttonstate.bitflags # {}
    /\ in_buttonstate = grabSnap
    /\ buttonstate.bitflags = {}
    /\ owed = {}

\* C9: a grab made with no tick since the grab before returns the same
\* down and click count as that grab and no flag bits; a grab leaves
\* buttonstate's down and click count as they were and zeroes its flag bits.
C9_GrabIdempotentOnFlags ==
    [][(pc \in GrabPcs /\ pc' # pc) =>
          /\ (pc = "grabBitflags" /\ ~ticked) => in_buttonstate'.bitflags = {}
          /\ (pc = "grabClickcount" /\ ~ticked)
                => in_buttonstate'.clickcount = in_buttonstate.clickcount
          /\ (pc = "grabDown" /\ ~ticked)
                => in_buttonstate'.down = in_buttonstate.down
          /\ buttonstate'.down = buttonstate.down
          /\ buttonstate'.clickcount = buttonstate.clickcount
          /\ pc = "grabClear" => buttonstate'.bitflags = {}
          /\ pc # "grabClear" => buttonstate'.bitflags = buttonstate.bitflags]_vars

C9_Witness ==
    /\ pc = "grabExit"
    /\ ~ticked
    /\ in_buttonstate = [bitflags |-> {}, clickcount |-> 1, down |-> 1]
    /\ buttonstate = in_buttonstate

(***************************************************************************)
(* Properties of the pixel hand-off.                                       *)
(***************************************************************************)
\* C10: once the callback has returned, the faces forwarded to the display
\* buffer are those whose colour has the dirty bit set, each once, all
\* before the iteration's display flush; a face whose dirty bit is unset is
\* not forwarded.
C10_OnlyDirtyFacesForwarded ==
    /\ pc = "displayBufferedPixels" =>
          /\ flushes = 0
          /\ \A f \in Faces :
                setPixelCalls[f] = IF colors[f].reserved = 1 THEN 1 ELSE 0
    /\ pc = "sleepCheck" =>
          /\ flushes = 1
          /\ \A f \in Faces :
                setPixelCalls[f] = IF colors[f].reserved = 1 THEN 1 ELSE 0

C10_Witness ==
    /\ pc = "sleepCheck"
    /\ flushes = 1
    /\ \E f, g \in Faces :
          /\ colors[f].reserved = 1 /\ setPixelCalls[f] = 1
          /\ displayBuf[f] = colors[f].value
          /\ colors[g].reserved = 0 /\ setPixelCalls[g] = 0
          /\ displayBuf[g] # colors[g].value

(***************************************************************************)
(* Properties of the sleep timer and of sleep().                           *)
(***************************************************************************)
\* C11: after postponeSleep() is called at millisecond time t (and not again),
\* the sleep timer is not expired at any time before t + 600,000 ms and is
\* expired at every time at or after it; the time is the one isExpired()
\* reads, the loop's snapshot of the millisecond counter.
C11_ExpiresExactlyAfterTimeout ==
    TimerIsExpired <=> millis_snapshot >= postponedAt + 600000

\* the loop evaluates the timer 600,000 ms or more after a postponeSleep()
\* that a button press caused, and finds it expired
C11_Witness ==
    /\ pc = "sleepCheck"
    /\ postponedAt > 0
    /\ millis_snapshot = postponedAt + 600000
    /\ TimerIsExpired


\* C12: from startup, once 600,000 one-millisecond ticks have passed with no
\* button activity seen by the tick and no postponeSleep() call, every
\* iteration that ends with the clock there has called sleep() exactly once:
\* not zero times, and not a second time after waking.
C12_IdleTimeoutSleepsExactlyOnce ==
    (/\ pc = "updateMillisSnapshot"
     /\ millis_snapshot = 600000
     /\ postponedAt = 0) => sleepCalls = 1


\* the steps of one iteration of run()'s loop, in the order of the code
IterationOrder ==
    <<"snapshot", "irpackets", "grab", "callback", "forward", "flush",
      "sleepTimer">>

\* the pcs inside sleep(), after its first statement
InsideSleepPcs ==
    {"ir_disable", "button_ISR_on", "power_sleep", "button_ISR_off",
     "ir_enable", "pixel_enable", "setWokeFlag"}

\* how many steps of the iteration are behind the loop at each pc inside it
StepsBehind ==
    [p \in {"processPendingIRPackets", "grabEnter", "grabBitflags",
            "grabClickcount", "grabDown", "grabClear", "grabExit",
            "loopEntry", "setPixels", "displayBufferedPixels", "sleepCheck"} |->
        CASE p = "processPendingIRPackets" -> 1
          [] p = "loopEntry" -> 3
          [] p = "setPixels" -> 4
          [] p = "displayBufferedPixels" -> 5
          [] p = "sleepCheck" -> 6
          [] OTHER -> 2]

\* C13: every iteration performs its steps in this strict order, each exactly
\* once: clock snapshot, IR pipeline, button grab-and-clear, user callback,
\* forwarding, display flush, sleep-timer evaluation; sleep() is entered at
\* most once per iteration, only after all of them, and only if the timer was
\* found expired.
C13_IterationStepsInStrictOrder ==
    /\ pc \in DOMAIN StepsBehind =>
           iterSteps = SubSeq(IterationOrder, 1, StepsBehind[pc])
    /\ pc = "pixel_disable" => iterSteps = IterationOrder /\ foundExpired
    /\ pc \in InsideSleepPcs =>
           iterSteps = Append(IterationOrder, "sleep") /\ foundExpired
    /\ pc = "updateMillisSnapshot" =>
           \/ iterSteps = <<>>
           \/ iterSteps = IterationOrder /\ ~foundExpired
           \/ iterSteps = Append(IterationOrder, "sleep") /\ foundExpired

\* sleep() is about to return in an iteration that made every step in order
\* and found the timer expired
C13_Witness ==
    /\ pc = "setWokeFlag"
    /\ iterSteps = Append(IterationOrder, "sleep")
    /\ foundExpired


\* what sleep() has switched off and on at each point from the low-power wait
\* to its return
SleepOrderKept ==
    /\ pc = "power_sleep" => ~pixelOn /\ ~irOn /\ buttonISR
    /\ pc = "button_ISR_off" => ~pixelOn /\ ~irOn /\ buttonISR
    /\ pc = "ir_enable" => ~pixelOn /\ ~irOn /\ ~buttonISR
    /\ pc = "pixel_enable" => ~pixelOn /\ irOn /\ ~buttonISR
    /\ pc = "setWokeFlag" => pixelOn /\ irOn /\ ~buttonISR
    /\ (pc = "updateMillisSnapshot" /\ slept) =>
           pixelOn /\ irOn /\ ~buttonISR /\ woke_flag = 1

\* C14: while the device is in the low-power wait, pixel output and IR
\* reception are disabled and the button wake interrupt is armed; the wait
\* ends only on the button wake interrupt (the clock does not move and nothing
\* else runs); when sleep() returns the wake interrupt has been disarmed, then
\* IR reception and then pixel output enabled, before the woke flag is set and
\* the next iteration begins.
C14_SleepEntryAndExitOrder ==
    [][/\ SleepOrderKept'
       /\ pc = "power_sleep" =>
              /\ buttonISR
              /\ pc' = "button_ISR_off"
              /\ millis' = millis
              /\ UNCHANGED <<pixelOn, irOn, buttonISR, woke_flag>>
       /\ (pc = "setWokeFlag" /\ pc' # pc) =>
              pc' = "updateMillisSnapshot" /\ woke_flag' = 1]_vars

\* the wake interrupt has just ended a low-power wait
C14_Witness ==
    /\ pc = "button_ISR_off"
    /\ buttonISR /\ ~irOn /\ ~pixelOn
    /\ sleepCalls > 0


(***************************************************************************)
(* Properties of the timer interrupt.                                      *)
(***************************************************************************)
\* C15: after any number n of timer_256us_callback_sei() invocations the
\* accumulator has lost no time: 1000 * (millisecond advances so far) +
\* step_us = 256 * n, and step_us is below 1000 (it never wraps or goes
\* negative).
C15_AccumulatorLosesNoTicks ==
    /\ 1000 * millis + step_us = 256 * timerCalls
    /\ step_us >= 0
    /\ step_us < 1000

\* 125 invocations make 32 ms exactly, with nothing left in the accumulator
C15_Witness == timerCalls = 125 /\ millis = 32 /\ step_us = 0


\* an invocation of timer_256us_callback_sei() takes place
TimerStep == timerCalls' = timerCalls + 1

\* C17: each advance of the millisecond counter comes, inside the same timer
\* callback invocation, with exactly one call of updateButtonState1ms(), and
\* postponeSleep() is called in that invocation if and only if that call
\* reports activity; an invocation that does not complete a millisecond
\* neither samples the button nor touches the sleep timer.
C17_SampleAndPostponePerMillisecond ==
    [][TimerStep =>
         /\ millis' \in {millis, millis + 1}
         /\ millis' = millis + 1 =>
                /\ samples' = samples + 1
                /\ lastReport' <=> postponedAt' = millis'
                /\ lastReport' <=> sleepTimer' = millis' + SLEEP_TIMEOUT_MS
                /\ ~lastReport' => sleepTimer' = sleepTimer
         /\ millis' = millis =>
                UNCHANGED <<samples, buttonstate, sleepTimer, postponedAt>>]_vars

\* a millisecond has just been completed by an invocation whose button sample
\* reported activity, the one sample of that millisecond
C17_Witness ==
    /\ step_us = 24
    /\ millis > 0
    /\ samples = millis
    /\ lastReport
    /\ postponedAt = millis
    /\ sleepTimer = millis + SLEEP_TIMEOUT_MS


(***************************************************************************)
(* Properties of crccheck().                                               *)
(***************************************************************************)
\* C16: accepting a frame is a checksum round trip: a frame built as header
\* and payload followed by the CRC-8-CCITT (seed 0xFF) of the bytes before it
\* is accepted by crccheck(), and the same frame with any single bit flipped,
\* in the header, the payload or the checksum byte, is rejected.
C16_ChecksumRoundTrip ==
    crcOut # "none" => (crcOut = "accepted" <=> crcFlips = 0)

\* [0x01,'H','I',0x4B] with the top bit of its header flipped was rejected
C16_Witness ==
    /\ crcIn = <<129, 72, 73, 75>>
    /\ crcFlips = 1
    /\ crcOut = "rejected"


\* C18: under every interleaving of the millisecond tick with the loop, the
\* device never enters the low-power wait while the sleep timer is not
\* expired: at the moment power_sleep() begins, no postponeSleep() has happened
\* within the last SLEEP_TIMEOUT_MS.
C18_NoSleepWhilePostponed ==
    pc = "power_sleep" => millis >= postponedAt + SLEEP_TIMEOUT_MS

\* C19: after the device wakes from sleep it does not enter sleep() again until
\* at least SLEEP_TIMEOUT_MS has elapsed since the wake, even when the tick
\* reports no button activity after the wake interrupt.
C19_NoSleepAgainSoonAfterWake ==
    (pc = "pixel_disable" /\ slept) => millis >= wokeAt + SLEEP_TIMEOUT_MS


\* the branches of the pipeline that are taken after a call of crccheck()
CalledCrccheck == {"user", "blinkos", "other", "badcrc"}

\* C20: the pipeline calls crccheck() only with len >= 2, so the 8 bit
\* pre-decrement loop counter never wraps, and the call reads exactly the len
\* bytes of the frame: len - 1 bytes into the CRC and the last byte for the
\* comparison, never a byte past the reported frame length.
C20_CrccheckReadsWithinFrame ==
    [][PassStep =>
         \A f \in Faces :
             verdict'[f] \in CalledCrccheck =>
                 LET len == Len(irBuf[f])
                     r == crcLoop(irBuf[f], 255, 0, len)
                 IN  /\ len >= 2
                     /\ r.i = len - 1
                     /\ (r.i + 1) \in DOMAIN irBuf[f]]_vars

\* a pass has just checked and surfaced a frame of the least length, a header
\* and its checksum
C20_Witness ==
    /\ pc = "grabEnter"
    /\ \E f \in Faces :
           /\ verdict[f] = "user"
           /\ irReady[f]
           /\ Len(irBuf[f]) = 2

=============================================================================
